---- MODULE Spec2Model ----
(***************************************************************************)
(* A model of gest-api: the validated registries and the VOCS aggregate of *)
(* src/gest_api/vocs.py and the Generator protocol of                      *)
(* src/gest_api/generator.py.                                              *)
(*                                                                         *)
(* Python values are records tagged by their Python type in the field py.  *)
(* A dict is an insertion-ordered sequence of key/value pairs, an entity   *)
(* (a pydantic model instance) is its class name and its fields in         *)
(* declaration order.  A call that can raise returns a record whose err    *)
(* field names the exception class ("" when nothing was raised).           *)
(***************************************************************************)
EXTENDS Integers, Sequences, FiniteSets, TLC

VARIABLES kind, reg, last,          \* one validated registry and its last call
          given,                    \* what the caller passed to that call
          vocs, lastV, dump, rebuilt, \* a VOCS, its last call, its serialized form
          gen, lastG,               \* a generator and its last call
          con, lastC                \* a constraint and its last call

regVars == <<kind, reg, last, given>>
vocsVars == <<vocs, lastV, dump, rebuilt>>
genVars == <<gen, lastG>>
conVars == <<con, lastC>>
vars == <<kind, reg, last, given, vocs, lastV, dump, rebuilt, gen, lastG, con, lastC>>

---------------------------------------------------------------------------
(* Bounds of the model. *)

\* numbers range over 0..MaxNum
MaxNum == 1
\* a bulk write carries at most MaxMap entries
MaxMap == 2
\* a generator emits at most MaxId identifiers
MaxId == 3

Names == {"x", "y"}
Nums == 0..MaxNum

---------------------------------------------------------------------------
(* Python values. *)

None == [py |-> "None"]
PyFloat(n) == [py |-> "float", n |-> n]
PyInt(n) == [py |-> "int", n |-> n]
Str(s) == [py |-> "str", s |-> s]
List(xs) == [py |-> "list", items |-> xs]
PySet(S) == [py |-> "set", elems |-> S]
Dict(kv) == [py |-> "dict", kv |-> kv]
Obj(cls, kv) == [py |-> "obj", cls |-> cls, kv |-> kv]
KV(k, v) == [k |-> k, v |-> v]

\* dict operations on an insertion-ordered sequence of pairs
HasKey(kv, k) == \E i \in 1..Len(kv) : kv[i].k = k
Get(kv, k) == kv[CHOOSE i \in 1..Len(kv) : kv[i].k = k].v
Pop(kv, k) == SelectSeq(kv, LAMBDA e : e.k # k)
Put(kv, k, v) ==
    IF HasKey(kv, k)
    THEN [i \in 1..Len(kv) |-> IF kv[i].k = k THEN KV(k, v) ELSE kv[i]]
    ELSE Append(kv, KV(k, v))
Keys(kv) == [i \in 1..Len(kv) |-> kv[i].k]

\* str.upper() on the strings the model uses
Upper(s) ==
    CASE s = "less_than" -> "LESS_THAN"
      [] s = "bounds" -> "BOUNDS"
      [] s = "minimize" -> "MINIMIZE"
      [] s = "float" -> "FLOAT"
      [] OTHER -> s

\* the element of a one-element set: Only({F(r) : r \in {e}}) is F(e) with e
\* evaluated once
Only(S) == CHOOSE x \in S : TRUE

\* the outcome of a call: the exception raised ("" for none) and the value
Ok(v) == [err |-> "", val |-> v]
Fail(e) == [err |-> e, val |-> None]

---------------------------------------------------------------------------
(* The entity classes and their pydantic construction. *)

Parent ==
    [c \in {"BaseField", "BaseVariable", "ContinuousVariable", "DiscreteVariable",
            "BaseConstraint", "LessThanConstraint", "GreaterThanConstraint",
            "BoundsConstraint", "BaseObjective", "MinimizeObjective",
            "MaximizeObjective", "ExploreObjective", "Constant", "Observable"} |->
       CASE c = "BaseField" -> "BaseModel"
         [] c \in {"BaseVariable", "BaseConstraint", "BaseObjective",
                   "Constant", "Observable"} -> "BaseField"
         [] c \in {"ContinuousVariable", "DiscreteVariable"} -> "BaseVariable"
         [] c \in {"LessThanConstraint", "GreaterThanConstraint",
                   "BoundsConstraint"} -> "BaseConstraint"
         [] OTHER -> "BaseObjective"]

EntityClasses == DOMAIN Parent

\* issubclass(c, b)
RECURSIVE IsSubclass(_, _)
IsSubclass(c, b) ==
    \/ c = b
    \/ c \in EntityClasses /\ IsSubclass(Parent[c], b)

\* isinstance(v, b)
IsInstance(v, b) == v.py = "obj" /\ IsSubclass(v.cls, b)

\* the declared fields of a class, inherited fields first
ClassFields(c) ==
    CASE c = "ContinuousVariable" -> <<"dtype", "default_value", "domain">>
      [] c = "DiscreteVariable" -> <<"dtype", "default_value", "values">>
      [] c = "BaseVariable" -> <<"dtype", "default_value">>
      [] c \in {"LessThanConstraint", "GreaterThanConstraint"} -> <<"dtype", "value">>
      [] c = "BoundsConstraint" -> <<"dtype", "range">>
      [] c = "Constant" -> <<"dtype", "value">>
      [] OTHER -> <<"dtype">>

\* the fields declared without a default
RequiredFields(c) ==
    CASE c = "ContinuousVariable" -> {"domain"}
      [] c = "DiscreteVariable" -> {"values"}
      [] c \in {"LessThanConstraint", "GreaterThanConstraint", "Constant"} -> {"value"}
      [] c = "BoundsConstraint" -> {"range"}
      [] OTHER -> {}

\* float: a float is kept, an int is converted
ValidateFloat(v) ==
    IF v.py = "float" THEN Ok(v)
    ELSE IF v.py = "int" THEN Ok(PyFloat(v.n))
    ELSE Fail("ValidationError")

\* conlist(float, min_length=2, max_length=2)
ValidateFloatPair(v) ==
    IF v.py = "list" /\ Len(v.items) = 2
         /\ \A i \in 1..2 : v.items[i].py \in {"float", "int"}
    THEN Ok(List([i \in 1..2 |-> PyFloat(v.items[i].n)]))
    ELSE Fail("ValidationError")

\* one field of class c validated against its annotation
ValidateField(c, f, v) ==
    CASE f = "dtype" ->
           IF v.py \in {"None", "str", "tuple", "type"} THEN Ok(v)
           ELSE Fail("ValidationError")
      [] f = "default_value" ->
           IF v.py = "None" THEN Ok(v) ELSE ValidateFloat(v)
      [] f = "domain" -> ValidateFloatPair(v)
      [] f = "values" ->
           IF v.py = "set" /\ v.elems # {} THEN Ok(v) ELSE Fail("ValidationError")
      [] f = "range" ->
           Only({IF r.err # "" THEN r
                 ELSE IF r.val.items[1].n >= r.val.items[2].n
                      THEN Fail("ValidationError")
                      ELSE r : r \in {ValidateFloatPair(v)}})
      [] f = "value" /\ c = "Constant" -> Ok(v)
      [] OTHER -> ValidateFloat(v)

\* cls(**kwargs): every declared field from kwargs or its default, other
\* keywords ignored, then the model validator
Construct(c, kwargs) ==
    Only({IF \E i \in 1..Len(rs) : rs[i].err # "" THEN Fail("ValidationError")
          ELSE IF c = "ContinuousVariable"
                    /\ ~(rs[3].val.items[2].n > rs[3].val.items[1].n)
               THEN Fail("ValidationError")
               ELSE Ok(Obj(c, [i \in 1..Len(rs) |-> KV(ClassFields(c)[i], rs[i].val)]))
          : rs \in {[i \in 1..Len(ClassFields(c)) |->
                       IF HasKey(kwargs, ClassFields(c)[i])
                       THEN ValidateField(c, ClassFields(c)[i],
                                          Get(kwargs, ClassFields(c)[i]))
                       ELSE IF ClassFields(c)[i] \in RequiredFields(c)
                            THEN Fail("ValidationError")
                            ELSE Ok(None)]}})

---------------------------------------------------------------------------
(* The module namespace that a `type` tag is looked up in. *)

\* the entity classes and the two lookup tables among the module's globals
GlobalNames == EntityClasses \cup {"CONSTRAINT_CLASSES", "OBJECTIVE_CLASSES"}

\* the keys of CONSTRAINT_CLASSES and the classes they name
CONSTRAINT_CLASSES ==
    [t \in {"LESS_THAN", "GREATER_THAN", "BOUNDS"} |->
       CASE t = "LESS_THAN" -> "LessThanConstraint"
         [] t = "GREATER_THAN" -> "GreaterThanConstraint"
         [] OTHER -> "BoundsConstraint"]

\* the keys of OBJECTIVE_CLASSES and the classes they name
OBJECTIVE_CLASSES ==
    [t \in {"MINIMIZE", "MAXIMIZE", "EXPLORE"} |->
       CASE t = "MINIMIZE" -> "MinimizeObjective"
         [] t = "MAXIMIZE" -> "MaximizeObjective"
         [] OTHER -> "ExploreObjective"]

\* globals()[tag](**kwargs): a class is constructed, a table is not callable
CallGlobal(tag, kwargs) ==
    IF tag \in EntityClasses THEN Construct(tag, kwargs) ELSE Fail("TypeError")

\* a coercion's outcome: the exception, the entity, and the caller's value as
\* the call leaves it
Out(r, arg) == Only({[err |-> x.err, val |-> x.val, arg |-> arg] : x \in {r}})

\* val.pop("type") on a dict
PopType(val) == Dict(Pop(val.kv, "type"))

\* the tag of a dict as a name to look up ("" when it is no string)
TagOf(val) ==
    LET t == Get(val.kv, "type") IN IF t.py = "str" THEN t.s ELSE ""

---------------------------------------------------------------------------
(* The coercion of each registry kind. *)

VariableDict_validate_entry(name, val) ==
    IF IsInstance(val, "BaseVariable") THEN Out(Ok(val), val)
    ELSE IF val.py = "list" THEN
        IF Len(val.items) # 2 THEN Out(Fail("ValueError"), val)
        ELSE Out(Construct("ContinuousVariable", <<KV("domain", val)>>), val)
    ELSE IF val.py = "set" THEN
        Out(Construct("DiscreteVariable", <<KV("values", val)>>), val)
    ELSE IF val.py = "dict" THEN
        IF ~HasKey(val.kv, "type") THEN Out(Fail("ValueError"), val)
        ELSE IF TagOf(val) \notin GlobalNames
             THEN Out(Fail("ValueError"), PopType(val))
             ELSE Out(CallGlobal(TagOf(val), PopType(val).kv), PopType(val))
    ELSE Out(Fail("ValueError"), val)

ConstraintDict_validate_entry(name, val) ==
    IF IsInstance(val, "BaseConstraint") THEN Out(Ok(val), val)
    ELSE IF val.py = "dict" THEN
        IF ~HasKey(val.kv, "type") THEN Out(Fail("ValueError"), val)
        ELSE IF TagOf(val) \notin GlobalNames
             THEN Out(Fail("ValueError"), PopType(val))
             ELSE Out(CallGlobal(TagOf(val), PopType(val).kv), PopType(val))
    ELSE IF val.py = "list" THEN
        IF Len(val.items) = 0 THEN Out(Fail("IndexError"), val)
        ELSE IF val.items[1].py # "str" THEN Out(Fail("ValueError"), val)
        ELSE LET constraint_type == Upper(val.items[1].s)
             IN  IF constraint_type \notin DOMAIN CONSTRAINT_CLASSES
                 THEN Out(Fail("ValueError"), val)
                 ELSE IF constraint_type = "BOUNDS"
                 THEN Out(Construct(CONSTRAINT_CLASSES[constraint_type],
                                    <<KV("range", List(Tail(val.items)))>>), val)
                 ELSE IF Len(val.items) < 2 THEN Out(Fail("ValueError"), val)
                 ELSE Out(Construct(CONSTRAINT_CLASSES[constraint_type],
                                    <<KV("value", val.items[2])>>), val)
    ELSE Out(Fail("ValueError"), val)

ObjectiveDict_validate_entry(name, val) ==
    IF IsInstance(val, "BaseObjective") THEN Out(Ok(val), val)
    ELSE IF val.py = "dict" THEN
        IF ~HasKey(val.kv, "type") THEN Out(Fail("ValueError"), val)
        ELSE IF TagOf(val) \notin GlobalNames
             THEN Out(Fail("ValueError"), PopType(val))
        ELSE IF TagOf(val) \notin EntityClasses
             THEN Out(Fail("TypeError"), PopType(val))
        ELSE IF ~IsSubclass(TagOf(val), "BaseObjective")
             THEN Out(Fail("ValueError"), PopType(val))
             ELSE Out(Construct(TagOf(val), PopType(val).kv), PopType(val))
    ELSE IF val.py = "str" THEN
        IF Upper(val.s) \in DOMAIN OBJECTIVE_CLASSES
        THEN Out(Construct(OBJECTIVE_CLASSES[Upper(val.s)], <<>>), val)
        ELSE Out(Fail("ValueError"), val)
    ELSE Out(Fail("ValueError"), val)

ConstantDict_validate_entry(name, val) ==
    IF IsInstance(val, "Constant") THEN Out(Ok(val), val)
    ELSE IF val.py = "dict" THEN
        IF ~HasKey(val.kv, "type") THEN Out(Fail("ValueError"), val)
        ELSE IF Get(val.kv, "type") # Str("Constant")
             THEN Out(Fail("ValueError"), PopType(val))
             ELSE Out(Construct("Constant", PopType(val).kv), PopType(val))
    ELSE Out(Construct("Constant", <<KV("value", val)>>), val)

ObservableDict_validate_entry(name, val) ==
    IF IsInstance(val, "Observable") THEN Out(Ok(val), val)
    ELSE IF val.py = "dict" THEN
        IF ~HasKey(val.kv, "type") THEN Out(Fail("ValueError"), val)
        ELSE IF Get(val.kv, "type") # Str("Observable")
             THEN Out(Fail("ValueError"), PopType(val))
             ELSE Out(Construct("Observable", PopType(val).kv), PopType(val))
    ELSE IF val.py \in {"str", "type", "tuple"} THEN
        Out(Construct("Observable", <<KV("dtype", val)>>), val)
    ELSE Out(Fail("ValueError"), val)

Kinds == {"variables", "objectives", "constraints", "constants", "observables"}

\* the coercion of the registry class of kind k
ValidateEntry(k, name, val) ==
    CASE k = "variables" -> VariableDict_validate_entry(name, val)
      [] k = "objectives" -> ObjectiveDict_validate_entry(name, val)
      [] k = "constraints" -> ConstraintDict_validate_entry(name, val)
      [] k = "constants" -> ConstantDict_validate_entry(name, val)
      [] OTHER -> ObservableDict_validate_entry(name, val)

---------------------------------------------------------------------------
(* The validated registry: a dict whose writes go through the coercion. *)

\* the outcome of a registry call: the exception, the registry's entries and
\* the number of entries the call stored
RegOut(err, kv, n) == [err |-> err, kv |-> kv, n |-> n]

\* a registry that stores the raw value and validates afterwards
SetItem_StoreFirst(k, kv, key, value) ==
    Only({IF r.err # "" THEN RegOut(r.err, Put(kv, key, value), 0)
          ELSE RegOut("", Put(kv, key, r.val), 1)
          : r \in {ValidateEntry(k, key, value)}})

\* self[key] = value
SetItem(k, kv, key, value) ==
    Only({IF r.err # "" THEN RegOut(r.err, kv, 0)
          ELSE RegOut("", Put(kv, key, r.val), 1)
          : r \in {ValidateEntry(k, key, value)}})

\* for key, value in dict(mapping).items(): self[key] = value
RECURSIVE Update(_, _, _)
Update(k, kv, mapping) ==
    IF mapping = <<>> THEN RegOut("", kv, 0)
    ELSE Only({IF one.err # "" THEN one
               ELSE Only({RegOut(rest.err, rest.kv, rest.n + 1)
                          : rest \in {Update(k, one.kv, Tail(mapping))}})
               : one \in {SetItem(k, kv, mapping[1].k, mapping[1].v)}})

\* the caller's mapping after a bulk write: dict(mapping) copies the mapping
\* but shares its values, so every value the loop reached is as the coercion
\* left it
RECURSIVE MappingAfter(_, _)
MappingAfter(k, mapping) ==
    IF mapping = <<>> THEN <<>>
    ELSE Only({<<KV(mapping[1].k, r.arg)>>
                 \o (IF r.err # "" THEN Tail(mapping)
                     ELSE MappingAfter(k, Tail(mapping)))
               : r \in {ValidateEntry(k, mapping[1].k, mapping[1].v)}})

\* RegistryClass(mapping): an empty dict filled entry by entry; an exception
\* leaves the caller without the new registry
NewRegistry(k, mapping) ==
    Only({IF r.err # "" THEN RegOut(r.err, <<>>, 0) ELSE r
          : r \in {Update(k, <<>>, mapping)}})

---------------------------------------------------------------------------
(* The values callers pass: every input shape of section 6, well-formed and  *)
(* malformed.                                                               *)

\* keyword arguments that give every entity class the fields it declares
FullBody ==
    <<KV("dtype", Str("float")), KV("default_value", PyInt(0)),
      KV("domain", List(<<PyInt(0), PyInt(MaxNum)>>)),
      KV("values", PySet({PyInt(0)})),
      KV("range", List(<<PyInt(0), PyInt(MaxNum)>>)),
      KV("value", PyInt(0))>>

\* the `type` tags tried: entity classes of every kind, a module-level table,
\* a name the module does not define
Tags ==
    {"ContinuousVariable", "MinimizeObjective", "Constant",
     "CONSTRAINT_CLASSES", "Nope"}

ListInputs ==
    {List(<<PyInt(a), PyInt(b)>>) : a \in Nums, b \in Nums}
      \cup {List(<<>>), List(<<Str("LESS_THAN")>>),
            List(<<Str("less_than"), PyInt(0)>>),
            List(<<Str("BOUNDS"), PyInt(0), PyInt(MaxNum)>>)}

DictInputs ==
    {Dict(<<KV("type", Str(t))>> \o FullBody) : t \in Tags} \cup {Dict(FullBody)}

ObjInputs ==
    {Construct(c, FullBody).val : c \in Tags \cap EntityClasses}

RawValues ==
    ListInputs \cup DictInputs \cup ObjInputs
      \cup {PySet({PyInt(0)}), Str("minimize"), Str("float"), PyInt(0)}

\* the values written under one name: every shape for the kinds that reject
\* some, a few of each for constants, which wrap whatever they are given
SetValues(k) ==
    IF k = "constants"
    THEN DictInputs \cup ObjInputs \cup {PyInt(0), List(<<>>)}
    ELSE RawValues

\* the values of bulk writes: two accepted shapes and a rejected one per kind
BulkValues(k) ==
    CASE k = "variables" ->
           {List(<<PyInt(0), PyInt(MaxNum)>>), PySet({PyInt(0)}), List(<<PyInt(0), PyInt(0)>>)}
      [] k = "objectives" ->
           {Str("minimize"), Str("EXPLORE"), Str("float")}
      [] k = "constraints" ->
           {List(<<Str("less_than"), PyInt(0)>>),
            List(<<Str("BOUNDS"), PyInt(0), PyInt(MaxNum)>>), List(<<>>)}
      [] k = "constants" ->
           {PyInt(0), Dict(<<KV("type", Str("Constant"))>> \o FullBody), Dict(FullBody)}
      [] OTHER ->
           {Str("float"), Dict(<<KV("type", Str("Observable"))>> \o FullBody), PyInt(0)}

\* the mappings of at most MaxMap entries over distinct names
Mappings(k) ==
    LET Entries == {KV(n, v) : n \in Names, v \in BulkValues(k)}
        Seqs == UNION {[1..len -> Entries] : len \in 0..MaxMap}
    IN  {m \in Seqs : \A i, j \in 1..Len(m) : i # j => m[i].k # m[j].k}

---------------------------------------------------------------------------
(* A registry on its own: constructed, then written entry by entry or in   *)
(* bulk.  last records the latest call: its operation, the exception it    *)
(* raised, the registry before it, the name written and how many entries   *)
(* it stored.                                                              *)

Call(op, err, pre, name, n) ==
    [op |-> op, err |-> err, pre |-> pre, name |-> name, n |-> n]

\* the value a caller passed to a call, before the call and after it
Given(before, after) == [before |-> before, after |-> after]

NoVocs == [built |-> FALSE]
NoCall == [op |-> "none"]
NoDump == [state |-> "none"]
NoGen == [state |-> "none"]
NoCon == None
NoGiven == [before |-> None, after |-> None]

RegInit ==
    /\ kind \in Kinds
    /\ reg = <<>>
    /\ last = Call("init", "", <<>>, "", 0)
    /\ given = NoGiven
    /\ vocs = NoVocs /\ lastV = NoCall /\ dump = NoDump /\ rebuilt = NoDump
    /\ gen = NoGen /\ lastG = NoCall
    /\ con = NoCon /\ lastC = NoCall

\* reg = RegistryClass(mapping): the name is rebound only when no exception
\* is raised
RegConstruct ==
    \E m \in Mappings(kind) :
        \E r \in {NewRegistry(kind, m)} :
            /\ reg' = IF r.err = "" THEN r.kv ELSE reg
            /\ last' = Call("construct", r.err, reg, "", r.n)
            /\ given' = Given(Dict(m), Dict(MappingAfter(kind, m)))
            /\ UNCHANGED <<kind, vocsVars, genVars, conVars>>

\* reg[name] = value
RegSetItem ==
    \E name \in Names, value \in SetValues(kind) :
        \E r \in {SetItem(kind, reg, name, value)} :
            /\ reg' = r.kv
            /\ last' = Call("set", r.err, reg, name, r.n)
            /\ \E v \in {ValidateEntry(kind, name, value)} :
                   given' = Given(value, v.arg)
            /\ UNCHANGED <<kind, vocsVars, genVars, conVars>>

\* reg.update(mapping)
RegUpdate ==
    \E m \in Mappings(kind) :
        \E r \in {Update(kind, reg, m)} :
            /\ reg' = r.kv
            /\ last' = Call("update", r.err, reg, "", r.n)
            /\ given' = Given(Dict(m), Dict(MappingAfter(kind, m)))
            /\ UNCHANGED <<kind, vocsVars, genVars, conVars>>

RegNext == RegConstruct \/ RegSetItem \/ RegUpdate

Spec == RegInit /\ [][RegNext]_vars

---------------------------------------------------------------------------
(* Claims about a registry. *)

\* the base class of the entities of a registry kind
KindBase(k) ==
    CASE k = "variables" -> "BaseVariable"
      [] k = "objectives" -> "BaseObjective"
      [] k = "constraints" -> "BaseConstraint"
      [] k = "constants" -> "Constant"
      [] OTHER -> "Observable"

\* C1: a bulk write (construction from a mapping, or update) that raises
\* commits none of its entries: the registry is what it was before the call.
C1_BulkWriteAtomic ==
    (last.op \in {"construct", "update"} /\ last.err # "") => reg = last.pre

\* C2: every value a registry stores is an entity of the registry's own kind.
C2_OwnKindOnly ==
    \A i \in 1..Len(reg) : IsInstance(reg[i].v, KindBase(kind))

\* C7: a single-key set that raises leaves the registry as it was; one that
\* is accepted stores an entity under that name and changes no other entry.
C7_SetValidatesFirst ==
    last.op = "set" =>
        IF last.err # "" THEN reg = last.pre
        ELSE /\ HasKey(reg, last.name)
             /\ Get(reg, last.name).py = "obj"
             /\ Keys(reg) = IF HasKey(last.pre, last.name)
                            THEN Keys(last.pre)
                            ELSE Append(Keys(last.pre), last.name)
             /\ \A i \in 1..Len(last.pre) :
                    last.pre[i].k # last.name => reg[i] = last.pre[i]

\* a rejected set on a name that already holds an entry
C7_Witness ==
    /\ last.op = "set" /\ last.err # ""
    /\ HasKey(last.pre, last.name) /\ Len(last.pre) = 2

\* C8: every rejected entry is rejected with the validation-failure kind
\* (ValueError, or pydantic's ValidationError, a ValueError).
C8_SingleErrorKind ==
    last.err \in {"", "ValueError", "ValidationError"}

---------------------------------------------------------------------------
(* The VOCS aggregate: five registries behind field validators.            *)

FieldOrder == <<"variables", "objectives", "constraints", "constants", "observables">>

\* {name: Observable() for name in v} for a list of names
RECURSIVE ObservablesOf(_)
ObservablesOf(names) ==
    IF names = <<>> THEN <<>>
    ELSE Put(ObservablesOf(SubSeq(names, 1, Len(names) - 1)),
             names[Len(names)].s, Construct("Observable", <<>>).val)

\* the mode="before" validator of field f applied to v (a dict, or for
\* observables also a list of names or anything else)
FieldValidator(f, v) ==
    IF f # "observables" THEN NewRegistry(f, v.kv)
    ELSE IF v.py = "list" THEN NewRegistry(f, ObservablesOf(v.items))
    ELSE IF v.py = "dict" THEN NewRegistry(f, v.kv)
    ELSE RegOut("ValueError", <<>>, 0)

\* the outcome of validating field f of the keyword arguments: a field left
\* out takes its default, the empty registry, and variables has none
FieldOutcome(args, f) ==
    IF HasKey(args, f) THEN FieldValidator(f, Get(args, f))
    ELSE IF f = "variables" THEN RegOut("ValidationError", <<>>, 0)
    ELSE RegOut("", <<>>, 0)

\* the outcome of every field, in declaration order
FieldOutcomes(args) == [i \in 1..Len(FieldOrder) |-> FieldOutcome(args, FieldOrder[i])]

\* the fields whose validator raises something that is no ValueError: pydantic
\* collects ValueErrors into one ValidationError and lets the rest escape
Escaping(outs) ==
    {i \in 1..Len(outs) : outs[i].err \notin {"", "ValueError", "ValidationError"}}

\* the field validation stops at: the first whose exception escapes, or the last
LastReached(outs) ==
    IF Escaping(outs) = {} THEN Len(outs)
    ELSE CHOOSE i \in Escaping(outs) : \A j \in Escaping(outs) : i <= j

\* VOCS(**args): fields validated in declaration order, unknown keywords
\* forbidden
VOCS_init(args) ==
    Only({IF Escaping(outs) # {}
          THEN [err |-> outs[LastReached(outs)].err, val |-> NoVocs]
          ELSE IF \/ \E i \in 1..Len(outs) : outs[i].err # ""
                  \/ \E i \in 1..Len(args) : args[i].k \notin Kinds
               THEN [err |-> "ValidationError", val |-> NoVocs]
               ELSE [err |-> "",
                     val |-> [built |-> TRUE,
                              f |-> [k \in Kinds |->
                                       outs[CHOOSE i \in 1..Len(outs) : FieldOrder[i] = k].kv]]]
          : outs \in {FieldOutcomes(args)}})

\* the keyword arguments as VOCS(**args) leaves them: the registries copy each
\* field's mapping but share its values
ArgsAfter(args) ==
    Only({[i \in 1..Len(args) |->
             IF /\ args[i].k \in Kinds /\ args[i].v.py = "dict"
                /\ \E j \in 1..last_ : FieldOrder[j] = args[i].k
             THEN KV(args[i].k, Dict(MappingAfter(args[i].k, args[i].v.kv)))
             ELSE args[i]]
          : last_ \in {LastReached(FieldOutcomes(args))}})

\* vocs.f = v under validate_assignment: the validator runs, and the field is
\* replaced only when it raises nothing
VOCS_setattr(v, f, value) ==
    Only({IF r.err = "" THEN [err |-> "", val |-> [v EXCEPT !.f[f] = r.kv]]
          ELSE [err |-> IF r.err = "ValueError" THEN "ValidationError" ELSE r.err,
                val |-> v]
          : r \in {FieldValidator(f, value)}})

variable_names(v) == Keys(v.f["variables"])
objective_names(v) == Keys(v.f["objectives"])
constraint_names(v) == Keys(v.f["constraints"])
observable_names(v) == Keys(v.f["observables"])
constant_names(v) == Keys(v.f["constants"])

\* a loop that appends every name, listed or not
AddNew_NoCheck(full_list, names) == full_list \o names

\* for ele in names: if ele not in full_list: full_list += [ele]
RECURSIVE AddNew(_, _)
AddNew(full_list, names) ==
    IF names = <<>> THEN full_list
    ELSE AddNew(IF \E i \in 1..Len(full_list) : full_list[i] = names[1]
                THEN full_list
                ELSE Append(full_list, names[1]),
                Tail(names))

output_names(v) ==
    AddNew(AddNew(objective_names(v), constraint_names(v)), observable_names(v))

all_names(v) == variable_names(v) \o constant_names(v) \o output_names(v)

n_outputs(v) == Len(output_names(v))

\* model_dump() of an entity: its fields in order, a model instance held in
\* a field dumped in turn
RECURSIVE model_dump(_)
model_dump(obj) ==
    Dict([i \in 1..Len(obj.kv) |->
            KV(obj.kv[i].k,
               IF obj.kv[i].v.py = "obj" THEN model_dump(obj.kv[i].v) ELSE obj.kv[i].v)])

\* {name: val.model_dump() | {"type": type(val).__name__}}
serialize_objects(registry) ==
    [i \in 1..Len(registry) |->
       KV(registry[i].k,
          Dict(Put(model_dump(registry[i].v).kv, "type", Str(registry[i].v.cls))))]

\* vocs.model_dump(): every field through its serializer
VOCS_model_dump(v) ==
    [i \in 1..Len(FieldOrder) |->
       KV(FieldOrder[i], Dict(serialize_objects(v.f[FieldOrder[i]])))]

---------------------------------------------------------------------------
(* A VOCS constructed from raw input, reassigned field by field, read, and  *)
(* serialized and constructed again.  The entry-level writes to a VOCS's    *)
(* registries are the registry calls of Spec.                               *)

UnitDomain == List(<<PyInt(0), PyInt(MaxNum)>>)

\* what a caller passes for each field
FieldArgs(f) ==
    CASE f = "variables" ->
           {Dict(<<>>),
            Dict(<<KV("x", UnitDomain)>>),
            Dict(<<KV("x", UnitDomain), KV("y", PySet({PyInt(0)}))>>),
            Dict(<<KV("x", Dict(<<KV("type", Str("ContinuousVariable"))>> \o FullBody))>>),
            Dict(<<KV("x", List(<<PyInt(0), PyInt(0)>>))>>)}
      [] f = "objectives" ->
           {Dict(<<KV("x", Str("minimize"))>>),
            Dict(<<KV("f", Str("EXPLORE")), KV("x", Str("minimize"))>>),
            Dict(<<KV("f", Str("float"))>>)}
      [] f = "constraints" ->
           {Dict(<<KV("f", List(<<Str("less_than"), PyInt(0)>>))>>),
            Dict(<<KV("c", List(<<Str("BOUNDS"), PyInt(0), PyInt(MaxNum)>>)),
                   KV("f", List(<<Str("GREATER_THAN"), PyInt(0)>>))>>),
            Dict(<<KV("c", List(<<>>))>>)}
      [] f = "constants" ->
           {Dict(<<KV("x", PyInt(0))>>),
            Dict(<<KV("k", Construct("ContinuousVariable", FullBody).val)>>)}
      [] OTHER ->
           {List(<<Str("o"), Str("c")>>),
            Dict(<<KV("f", Str("float")), KV("o", Str("float"))>>),
            Str("float")}

\* the keyword arguments of a construction: each field given or left out
VocsArgs ==
    LET Choice(f) == {<<>>} \cup {<<KV(f, v)>> : v \in FieldArgs(f)}
    IN  {a \o b \o c \o d \o e :
            a \in Choice("variables"), b \in Choice("objectives"),
            c \in Choice("constraints"), d \in Choice("constants"),
            e \in Choice("observables")}

VCall(op, err, pre, out, variables) ==
    [op |-> op, err |-> err, pre |-> pre, out |-> out, variables |-> variables]

VocsInit ==
    /\ vocs = NoVocs /\ lastV = NoCall /\ dump = NoDump /\ rebuilt = NoDump
    /\ kind = "variables" /\ reg = <<>> /\ last = NoCall /\ given = NoGiven
    /\ gen = NoGen /\ lastG = NoCall
    /\ con = NoCon /\ lastC = NoCall

\* vocs = VOCS(**args)
VocsConstruct ==
    /\ ~vocs.built
    /\ \E args \in VocsArgs :
        \E r \in {VOCS_init(args)} :
            /\ vocs' = r.val
            /\ lastV' = VCall("construct", r.err, vocs, <<>>,
                              IF ~HasKey(args, "variables") THEN "missing"
                              ELSE IF Get(args, "variables") = Dict(<<>>) THEN "empty"
                              ELSE "given")
    /\ dump' = NoDump /\ rebuilt' = NoDump
    /\ UNCHANGED <<regVars, genVars, conVars>>

\* vocs.f = value
VocsAssign ==
    /\ vocs.built
    /\ \E f \in Kinds : \E value \in FieldArgs(f) :
        \E r \in {VOCS_setattr(vocs, f, value)} :
            /\ vocs' = r.val
            /\ lastV' = VCall("assign", r.err, vocs, <<>>, "")
    /\ dump' = NoDump /\ rebuilt' = NoDump
    /\ UNCHANGED <<regVars, genVars, conVars>>

\* vocs.output_names
ReadOutputNames ==
    /\ vocs.built
    /\ lastV' = VCall("output_names", "", vocs, output_names(vocs), "")
    /\ UNCHANGED <<vocs, dump, rebuilt, regVars, genVars, conVars>>

\* vocs.n_outputs
ReadNOutputs ==
    /\ vocs.built
    /\ lastV' = VCall("n_outputs", "", vocs, <<n_outputs(vocs)>>, "")
    /\ UNCHANGED <<vocs, dump, rebuilt, regVars, genVars, conVars>>

\* vocs.all_names
ReadAllNames ==
    /\ vocs.built
    /\ lastV' = VCall("all_names", "", vocs, all_names(vocs), "")
    /\ UNCHANGED <<vocs, dump, rebuilt, regVars, genVars, conVars>>

\* data = vocs.model_dump()
Serialize ==
    /\ vocs.built
    /\ dump' = [state |-> "fresh", src |-> vocs, data |-> VOCS_model_dump(vocs)]
    /\ rebuilt' = NoDump
    /\ lastV' = VCall("model_dump", "", vocs, <<>>, "")
    /\ UNCHANGED <<vocs, regVars, genVars, conVars>>

\* VOCS(**data), the first time or again
Reconstruct ==
    /\ dump.state # "none"
    /\ \E r \in {VOCS_init(dump.data)} :
           /\ rebuilt' = [state |-> "done", err |-> r.err, out |-> r.val,
                          first |-> dump.state = "fresh"]
           /\ dump' = [dump EXCEPT !.state = "used", !.data = ArgsAfter(dump.data)]
    /\ lastV' = VCall("reconstruct", "", vocs, <<>>, "")
    /\ UNCHANGED <<vocs, regVars, genVars, conVars>>

VocsNext ==
    \/ VocsConstruct \/ VocsAssign
    \/ ReadOutputNames \/ ReadNOutputs \/ ReadAllNames
    \/ Serialize \/ Reconstruct

SpecVOCS == VocsInit /\ [][VocsNext]_vars

---------------------------------------------------------------------------
(* Claims about a VOCS. *)

\* C3: constructing a VOCS with variables left out or given as an empty
\* mapping fails, so no construction yields a VOCS without variables.
C3_NoEmptyVariables ==
    (lastV.op = "construct" /\ lastV.variables \in {"missing", "empty"})
        => (lastV.err # "" /\ ~vocs.built)

\* C4: constructing a VOCS from the serialized form of a VOCS succeeds and
\* gives the five registries back: same names, same order, equal entities
\* (checked on the VOCS that have variables).
C4_RoundTrip ==
    (rebuilt.state = "done" /\ rebuilt.first /\ dump.src.f["variables"] # <<>>)
        => (rebuilt.err = "" /\ rebuilt.out = dump.src)

\* C5: all_names lists each name at most once.
C5_AllNamesNoDup ==
    lastV.op = "all_names" =>
        \A i, j \in 1..Len(lastV.out) : i # j => lastV.out[i] # lastV.out[j]

\* the names of a sequence that are in none of the given sets
NotIn(names, S) == SelectSeq(names, LAMBDA n : n \notin S)
NameSet(names) == {names[i] : i \in 1..Len(names)}

\* C6: output_names is the objective names in insertion order, then the
\* constraint names not among them, then the observable names not yet
\* listed, without duplicates; n_outputs is its length; reading either
\* leaves the VOCS as it was.
C6_OutputNames ==
    LET objs == Keys(vocs.f["objectives"])
        cons == Keys(vocs.f["constraints"])
        obsv == Keys(vocs.f["observables"])
        expected == objs \o NotIn(cons, NameSet(objs))
                         \o NotIn(obsv, NameSet(objs) \cup NameSet(cons))
    IN  /\ lastV.op = "output_names" =>
            /\ lastV.out = expected
            /\ \A i, j \in 1..Len(lastV.out) : i # j => lastV.out[i] # lastV.out[j]
            /\ vocs = lastV.pre
        /\ lastV.op = "n_outputs" =>
            /\ lastV.out = <<Len(expected)>>
            /\ vocs = lastV.pre

\* output_names read where a constraint and an observable repeat a name
\* already listed and each registry also brings a new one
C6_Witness ==
    /\ lastV.op = "output_names"
    /\ lastV.out = <<"f", "x", "c", "o">>
    /\ Keys(vocs.f["constraints"]) = <<"c", "f">>
    /\ Keys(vocs.f["observables"]) = <<"o", "c">>

---------------------------------------------------------------------------
(* The Generator protocol.  A concrete generator is a subclass: it must     *)
(* define __init__, _validate_vocs and suggest, which are abstract, and it  *)
(* inherits ingest and finalize.  It is described by whether its __init__   *)
(* chains to Generator.__init__ and by its returns_id attribute; the VOCS   *)
(* it is given is compatible with it or not.                                *)

\* self._validate_vocs(vocs): raises ValueError for an incompatible VOCS
validate_vocs(compatible) == IF compatible THEN "" ELSE "ValueError"

\* Generator.__init__(self, vocs)
Generator_init(compatible) == validate_vocs(compatible)

\* the __init__ of a subclass: the base constructor runs only when the
\* subclass calls it
Subclass_init(chains, compatible) ==
    IF chains THEN Generator_init(compatible) ELSE ""

\* Generator.ingest(self, results): the inherited method has no statements
Generator_ingest(g, results) == [err |-> "", gen |-> g]

\* Generator.finalize(self): the inherited method has no statements
Generator_finalize(g) == [err |-> "", gen |-> g]

\* suggest(num_points) of a generator: num_points points, each with a fresh
\* identifier when returns_id is set, kept as pending
Generator_suggest(g, num_points) ==
    IF g.returns_id
    THEN [g EXCEPT !.next = g.next + num_points,
                   !.pending = g.pending \cup (g.next + 1 .. g.next + num_points)]
    ELSE g

GCall(op, err, pre, ids) == [op |-> op, err |-> err, pre |-> pre, ids |-> ids]

\* the records passed to ingest, each by its _id (0 for a record without one)
Results == UNION {[1..len -> 0..MaxId + 1] : len \in 1..2}

GenInit ==
    /\ gen = NoGen /\ lastG = NoCall
    /\ vocs = NoVocs /\ lastV = NoCall /\ dump = NoDump /\ rebuilt = NoDump
    /\ kind = "variables" /\ reg = <<>> /\ last = NoCall /\ given = NoGiven
    /\ con = NoCon /\ lastC = NoCall

\* g = SomeGenerator(vocs)
GenConstruct ==
    /\ gen.state = "none"
    /\ \E chains \in BOOLEAN, returns_id \in BOOLEAN, compatible \in BOOLEAN :
        \E err \in {Subclass_init(chains, compatible)} :
            /\ gen' = IF err # "" THEN NoGen
                      ELSE [state |-> "ready", chains |-> chains,
                            returns_id |-> returns_id, compatible |-> compatible,
                            next |-> 0, pending |-> {}]
            /\ lastG' = GCall("construct", err, gen, <<>>)
    /\ UNCHANGED <<regVars, vocsVars, conVars>>

\* g.suggest(num_points)
Suggest ==
    /\ gen.state = "ready"
    /\ \E num_points \in 1..2 :
        /\ gen.next + num_points <= MaxId
        /\ gen' = Generator_suggest(gen, num_points)
        /\ lastG' = GCall("suggest", "", gen, <<num_points>>)
    /\ UNCHANGED <<regVars, vocsVars, conVars>>

\* g.ingest(results)
Ingest ==
    /\ gen.state = "ready"
    /\ \E results \in Results :
        \E r \in {Generator_ingest(gen, results)} :
            /\ gen' = r.gen
            /\ lastG' = GCall("ingest", r.err, gen, results)
    /\ UNCHANGED <<regVars, vocsVars, conVars>>

\* g.finalize()
Finalize ==
    /\ gen.state = "ready"
    /\ \E r \in {Generator_finalize(gen)} :
        /\ gen' = [r.gen EXCEPT !.state = "finalized"]
        /\ lastG' = GCall("finalize", r.err, gen, <<>>)
    /\ UNCHANGED <<regVars, vocsVars, conVars>>

GenNext == GenConstruct \/ Suggest \/ Ingest \/ Finalize

SpecGen == GenInit /\ [][GenNext]_vars

---------------------------------------------------------------------------
(* Claims about a generator. *)

\* C9: constructing a concrete generator runs the VOCS compatibility check, so
\* no generator bound to an incompatible VOCS gets to where suggest or ingest
\* can be called.
C9_NoIncompatibleGenerator ==
    gen.state = "ready" => gen.compatible

\* C10: a generator that returns identifiers rejects, with a validation
\* error and no change to its state, an ingest of a record whose _id is not
\* one it emitted and has not retired; it accepts a record without _id
\* (checked on the generators constructed through Generator.__init__ with a
\* compatible VOCS).
C10_UnknownIdRejected ==
    (lastG.op = "ingest" /\ lastG.pre.returns_id
        /\ lastG.pre.chains /\ lastG.pre.compatible) =>
        IF \E i \in 1..Len(lastG.ids) :
               lastG.ids[i] # 0 /\ lastG.ids[i] \notin lastG.pre.pending
        THEN lastG.err = "ValueError" /\ gen = lastG.pre
        ELSE lastG.err = ""

---------------------------------------------------------------------------
(* The check predicates of the constraints. *)

\* LessThanConstraint.check(x)
LessThanConstraint_check(c, x) == x.n < Get(c.kv, "value").n

\* GreaterThanConstraint.check(x)
GreaterThanConstraint_check(c, x) == x.n > Get(c.kv, "value").n

\* a check that excludes both ends of the range
BoundsConstraint_check_Open(c, x) ==
    \E range \in {Get(c.kv, "range").items} :
        range[1].n < x.n /\ x.n < range[2].n

\* BoundsConstraint.check(x): lo, hi = self.range; lo <= x <= hi
BoundsConstraint_check(c, x) ==
    \E range \in {Get(c.kv, "range").items} :
        range[1].n <= x.n /\ x.n <= range[2].n

\* c.check(x), dispatched on the class of c
Check(c, x) ==
    CASE c.cls = "LessThanConstraint" -> LessThanConstraint_check(c, x)
      [] c.cls = "GreaterThanConstraint" -> GreaterThanConstraint_check(c, x)
      [] c.cls = "BoundsConstraint" -> BoundsConstraint_check(c, x)

\* the numbers given to a constraint and to check, as int and as float
CheckNums == (0 - 1)..(MaxNum + 1)
Numbers == {PyInt(n) : n \in CheckNums} \cup {PyFloat(n) : n \in CheckNums}

\* the keyword arguments a constraint is constructed from
ConstraintArgs ==
    {[cls |-> c, kwargs |-> <<KV("value", v)>>] :
        c \in {"LessThanConstraint", "GreaterThanConstraint"}, v \in Numbers}
    \cup {[cls |-> "BoundsConstraint",
           kwargs |-> <<KV("range", List(<<lo, hi>>))>>] :
            lo \in Numbers, hi \in Numbers}
    \cup {[cls |-> "BoundsConstraint",
           kwargs |-> <<KV("range", List(<<lo>>))>>] : lo \in Numbers}

CCall(op, err, x, out) == [op |-> op, err |-> err, x |-> x, out |-> out]

ConInit ==
    /\ con = NoCon /\ lastC = NoCall
    /\ kind = "constraints" /\ reg = <<>> /\ last = NoCall /\ given = NoGiven
    /\ vocs = NoVocs /\ lastV = NoCall /\ dump = NoDump /\ rebuilt = NoDump
    /\ gen = NoGen /\ lastG = NoCall

\* con = SomeConstraint(**kwargs): the name is rebound only when no exception
\* is raised
ConConstruct ==
    /\ \E a \in ConstraintArgs :
        \E r \in {Construct(a.cls, a.kwargs)} :
            /\ con' = IF r.err = "" THEN r.val ELSE con
            /\ lastC' = CCall("construct", r.err, None, FALSE)
    /\ UNCHANGED <<regVars, vocsVars, genVars>>

\* con.check(x)
ConCheck ==
    /\ con # NoCon
    /\ \E x \in Numbers :
        lastC' = CCall("check", "", x, Check(con, x))
    /\ UNCHANGED <<con, regVars, vocsVars, genVars>>

ConNext == ConConstruct \/ ConCheck

SpecCheck == ConInit /\ [][ConNext]_vars

---------------------------------------------------------------------------
(* Claims about a constraint. *)

---------------------------------------------------------------------------
(* Claims about what a call leaves of the values passed to it. *)

\* a mapping still has every key it had
KeepsKeys(before, after) ==
    before.py = "dict" =>
        after.py = "dict" /\ \A i \in 1..Len(before.kv) : HasKey(after.kv, before.kv[i].k)

\* a mapping of mappings still has every entry, and each entry every key
KeepsEntries(before, after) ==
    /\ KeepsKeys(before, after)
    /\ before.py = "dict" =>
          \A i \in 1..Len(before.kv) :
              KeepsKeys(before.kv[i].v, Get(after.kv, before.kv[i].k))

\* C12: a coercion does not modify the caller's input.  After an accepted
\* registry write the value or mapping passed still has every key it had, type
\* included; after a VOCS is constructed from a serialized form, every
\* mapping of that form still has its keys, and constructing from it again
\* raises nothing and gives the VOCS the first construction gave.
C12_InputNotModified ==
    /\ (last.op = "set" /\ last.err = "") => KeepsKeys(given.before, given.after)
    /\ (last.op \in {"construct", "update"} /\ last.err = "") =>
          KeepsEntries(given.before, given.after)
    /\ dump.state = "used" =>
          \E data \in {VOCS_model_dump(dump.src)} :
              \A i \in 1..Len(data) : KeepsEntries(data[i].v, Get(dump.data, data[i].k))
    /\ (rebuilt.state = "done" /\ ~rebuilt.first) =>
          \E r \in {VOCS_init(VOCS_model_dump(dump.src))} :
              rebuilt.err = "" /\ rebuilt.out = r.val

====
